---- MODULE Spec2Model ----
(***************************************************************************)
(* The connection registry and command relay of the public server.         *)
(*                                                                         *)
(* The repository holds two renderings of the relay: the one in main.py    *)
(* (endpoints /ws and /ws/agent, plus the HTTP endpoints that send to the  *)
(* agents) and the one in routes/websocket.py (endpoints /ws and /agent).  *)
(* Each keeps its own pair of module-level sets connected_clients and      *)
(* connected_agents; impl says which of the two modules serves the         *)
(* sockets of a run.                                                       *)
(*                                                                         *)
(* Every handler is an asyncio task.  A step of the model is what a task   *)
(* does between two suspensions: it resumes from an await, runs the code   *)
(* up to the next await, and the effect of that await (a frame handed to   *)
(* the transport, or the send's failure) closes the step.                  *)
(*                                                                         *)
(* The agent process of agent.py (its reconnect loop, its message loop and *)
(* handle_command with the files it writes) and the token extraction of    *)
(* auth.py are modelled beside the relay, each with the specification      *)
(* that runs it alone.                                                     *)
(***************************************************************************)
EXTENDS Naturals, Sequences, FiniteSets, TLC

NConn == 3          \* connections accepted during a run
MaxFrames == 2      \* frames the peers send during a run
MaxHttp == 1        \* HTTP requests served during a run
MaxAttempts == 7    \* connection attempts of the agent process during a run
MaxAgentMsgs == 2   \* frames the agent process reads on one connection
MaxCookie == 4      \* pieces of the value of a cookie
MaxBytes == 3       \* bytes of a file
MaxName == 3        \* pieces of a file name
MaxHits == 2        \* page requests of the browser

reconnect_delay == 5    \* agent.py: self.reconnect_delay
max_retries == 5        \* agent.py: self.max_retries (never read)

Conn == 1..NConn
Req == (NConn + 1)..(NConn + MaxHttp)
Task == Conn \cup Req

VARIABLES
    impl,               \* "main" (main.py) or "routes" (routes/websocket.py)
    connected_clients,  \* the client registry set
    connected_agents,   \* the agent registry set
    role,               \* per connection: "none", "client", "agent"
    token,              \* per connection: the access_token its handshake
                        \* carries
    alive,              \* per connection: the transport is open
    stalled,            \* the connections whose peer has stopped reading:
                        \* a send to them never completes
    closeCode,          \* per connection: how the server closed the socket
    admits,             \* per connection: number of registry adds
    pc,                 \* per task: where its coroutine is suspended
    cur,                \* per task: the envelope it is relaying
    snap,               \* per task: the target set when its loop started
    seen,               \* per task: the members its loop has visited
    fails,              \* per task: the members whose send failed
    success,            \* per task: the loop's success flag
    raised,             \* per task: the exception that ended it
    inbox,              \* per connection: the frames the peer was sent
    frames,             \* frames received from peers so far
    lastIn,             \* the frame receive_json read last
    unserved,           \* history: the client frames read while the agent
                        \* set was empty
    removal,            \* per connection: history of its removal from
                        \* connected_agents
    kind,               \* per request: the endpoint it asks for
    httpStatus,         \* per request: the status code answered, 0 = none
    apc,                \* agent process: where AgentWebSocket.connect is
    is_connected,       \* agent process: self.is_connected
    attempts,           \* agent process: connection attempts started
    sleeps,             \* agent process: sleeps started
    delay,              \* agent process: seconds of the sleep started last
    lastEnd,            \* agent process: how the last attempt ended
    handled,            \* agent process: frames read on this connection
    got,                \* agent process: the frames read on this connection
    outbox,             \* agent process: the replies sent on this connection
    data,               \* agent process: the frame handle_messages decoded
    response,           \* agent process: what handle_command returned last
    files,              \* agent process: the files on the agent's disk
    file_content,       \* download_file: the bytes read from the file
    cookie,             \* auth.py: the access_token cookie of a request
    extracted,          \* auth.py: what get_token_from_cookie returned
    store,              \* main.py: the names of the files in FILES_DIR
    asked,              \* per request: the cookie and the file name it
                        \* carries
    jar,                \* the browser: the cookies the server has set
    logged,             \* history: the user of the last login that
                        \* succeeded, "out" after a logout
    current_user,       \* auth.py: what get_current_user gave last
    hits,               \* requests the browser has made with its cookies
    taken               \* the replies of the agent process that the server
                        \* has read

conns == <<role, token, admits>>
input == <<frames, lastIn, unserved>>
locals == <<pc, cur, snap, seen, fails, success, raised>>
registry == <<connected_clients, connected_agents, inbox, removal>>
agentProc == <<apc, is_connected, attempts, sleeps, delay, lastEnd, handled>>
agentIO == <<got, outbox, data, response, files, file_content>>
gate == <<cookie, extracted>>
disk == <<store, asked>>
session == <<jar, logged, current_user, hits>>
aside == <<disk, session, taken>>
vars == <<impl, connected_clients, connected_agents, role, token, alive,
          stalled,
          closeCode, admits, pc, cur, snap, seen, fails, success, raised,
          inbox, frames, lastIn, unserved, removal, kind, httpStatus,
          apc, is_connected, attempts, sleeps, delay, lastEnd, handled,
          got, outbox, data, response, files, file_content, cookie,
          extracted, store, asked, jar, logged, current_user, hits, taken>>
server == <<impl, connected_clients, connected_agents, role, token, alive,
            stalled, closeCode, admits, pc, cur, snap, seen, fails, success,
            raised, inbox, frames, lastIn, unserved, removal, kind,
            httpStatus, cookie, extracted, aside>>

Loops == {"fan", "bcast_on", "bcast_off", "dl_start", "dl_file"}
Tokens == {"valid", "invalid", "missing"}

(***************************************************************************)
(* Envelopes.  "none" is an absent key.  src and id are not on the wire:   *)
(* src is the connection (or request) the envelope is about, id the number *)
(* of the inbound frame it relays.                                         *)
(***************************************************************************)
Blank ==
    [type |-> "none", command |-> "none", status |-> "none",
     message |-> "none", connected |-> "none", file |-> "none",
     big |-> FALSE, src |-> 0, id |-> 0]

NonJson == "<not json>"

ClientFrameKinds == {"ping", "nocommand", "other", "big", "garbage"}
AgentFrameKinds == {"response", "big", "garbage"}

\* What a browser client may put on the wire.
ClientFrame(k, c, n) ==
    CASE k = "ping" ->
           [Blank EXCEPT !.type = "command", !.command = "ping",
                         !.src = c, !.id = n]
      [] k = "nocommand" ->
           [Blank EXCEPT !.type = "command", !.src = c, !.id = n]
      [] k = "other" ->
           [Blank EXCEPT !.type = "status_update", !.status = "ok",
                         !.src = c, !.id = n]
      [] k = "big" ->
           [Blank EXCEPT !.type = "command", !.command = "download",
                         !.file = "f", !.big = TRUE, !.src = c, !.id = n]
      [] OTHER ->
           [Blank EXCEPT !.type = NonJson, !.src = c, !.id = n]

\* What an agent may put on the wire.
AgentFrame(k, c, n) ==
    CASE k = "response" ->
           [Blank EXCEPT !.type = "response", !.status = "ok",
                         !.message = "pong", !.src = c, !.id = n]
      [] k = "big" ->
           [Blank EXCEPT !.type = "agent_files", !.big = TRUE,
                         !.src = c, !.id = n]
      [] OTHER ->
           [Blank EXCEPT !.type = NonJson, !.src = c, !.id = n]

AgentStatus(b, a) ==
    [Blank EXCEPT !.type = "agent_status",
                  !.connected = IF b THEN "true" ELSE "false", !.src = a]

\* ErrorEnv with the type key forgotten.
ErrorEnv_untyped(text) == [Blank EXCEPT !.message = text]

ErrorEnv(text) == [Blank EXCEPT !.type = "error", !.message = text]

Ack == [Blank EXCEPT !.status = "ok", !.message = "Mensaje recibido"]

\* The reduced envelope main.py sends in place of an oversized one.
Summary(m) ==
    [Blank EXCEPT !.type = IF m.type = "none" THEN "unknown" ELSE m.type,
                  !.status = IF m.status = "none" THEN "error" ELSE m.status,
                  !.message = "Message too large to send",
                  !.src = m.src, !.id = m.id]

(***************************************************************************)
(* auth.py, get_token_from_cookie.  The value of a cookie is a string,     *)
(* here a sequence of pieces: a piece is a blank or a text without blanks. *)
(***************************************************************************)
\* The sequences over S of length n at most.
RECURSIVE SeqsUpTo(_, _)
SeqsUpTo(S, n) ==
    IF n = 0
    THEN {<<>>}
    ELSE LET R == SeqsUpTo(S, n - 1)
         IN R \cup {Append(r, x) : r \in {q \in R : Len(q) = n - 1}, x \in S}

SP == " "
Pieces == {SP, "Bearer", "bearer", "Basic", "tok"}

\* request.cookies.get("access_token")
NoCookie == [present |-> FALSE, value |-> <<>>]
Cookies ==
    {NoCookie}
        \cup {[present |-> TRUE, value |-> v] : v \in SeqsUpTo(Pieces, MaxCookie)}

\* get_token_from_cookie has not been called.
Unset == [called |-> FALSE, ok |-> FALSE, token |-> <<>>]

\* return None
None == [called |-> TRUE, ok |-> FALSE, token |-> <<>>]

\* The maximal runs of s without the piece sep; w is the run being read.
RECURSIVE Runs(_, _, _, _)
Runs(s, sep, w, acc) ==
    LET flushed == IF w = <<>> THEN acc ELSE Append(acc, w)
    IN IF s = <<>>
       THEN flushed
       ELSE IF Head(s) = sep
            THEN Runs(Tail(s), sep, <<>>, flushed)
            ELSE Runs(Tail(s), sep, Append(w, Head(s)), acc)

\* str.split()
split(s) == Runs(s, SP, <<>>, <<>>)

\* str.lower()
lower(w) ==
    [i \in 1..Len(w) |->
       CASE w[i] = "Bearer" -> "bearer"
         [] w[i] = "Basic" -> "basic"
         [] OTHER -> w[i]]

\* get_token_from_cookie without the test of the scheme.
get_token_from_cookie_any_scheme(ck) ==
    IF ~ck.present \/ ck.value = <<>>
    THEN None
    ELSE LET parts == split(ck.value)
         IN IF Len(parts) # 2
            THEN None
            ELSE [called |-> TRUE, ok |-> TRUE, token |-> parts[2]]

get_token_from_cookie(ck) ==
    IF ~ck.present \/ ck.value = <<>>
    THEN None                       \* if not authorization
    ELSE LET parts == split(ck.value)
         IN IF Len(parts) # 2
            THEN None               \* except ValueError
            ELSE IF lower(parts[1]) # <<"bearer">>
                 THEN None
                 ELSE [called |-> TRUE, ok |-> TRUE, token |-> parts[2]]

\* The users of the database, by email.
Users == {"ana", "bob"}

\* create_access_token: jwt.encode of the payload with sub, signed with
\* SECRET_KEY; the token is one piece of text.
create_access_token(sub) == IF sub = "ana" THEN "jwt.ana" ELSE "jwt.bob"

\* jwt.decode(token, SECRET_KEY): the payload of a token that
\* create_access_token made and that has not expired; "jwt.eve" is one for
\* a user the database has no more, every other text raises JWTError.
jwt_decode(t) ==
    CASE t = <<"jwt.ana">> -> [ok |-> TRUE, sub |-> "ana"]
      [] t = <<"jwt.bob">> -> [ok |-> TRUE, sub |-> "bob"]
      [] t = <<"jwt.eve">> -> [ok |-> TRUE, sub |-> "eve"]
      [] OTHER -> [ok |-> FALSE, sub |-> "none"]

\* What get_current_user gives for a request with the cookie ck: the user,
\* "None" without a token, "401" where it raises credentials_exception.
get_current_user_of(ck) ==
    LET t == get_token_from_cookie(ck)
    IN IF ~t.ok
       THEN "None"
       ELSE LET payload == jwt_decode(t.token)
            IN IF ~payload.ok
               THEN "401"               \* except JWTError
               ELSE IF payload.sub \notin Users
                    THEN "401"          \* if user is None
                    ELSE payload.sub

BearerCookie(t) == [present |-> TRUE, value |-> <<"Bearer", SP, t>>]

\* The cookies the requests to the file endpoints carry: none, the one of a
\* login, one whose token is no token of the server, one of a user that
\* is gone.
RequestCookies ==
    {NoCookie, BearerCookie(create_access_token("ana")), BearerCookie("tok"),
     BearerCookie("jwt.eve")}

\* The names of the files in FILES_DIR and in the requests.
ServerNames == {"f", "g"}

\* What a request carries.
NoAsk == [cookie |-> NoCookie, name |-> "none"]
Ask(ck, name) == [cookie |-> ck, name |-> name]

(***************************************************************************)
(* agent.py, handle_command, and what it works on.  A byte string is a     *)
(* sequence of numbers below 256, a base64 text a sequence of digits below *)
(* 64 and Pad.  A file name is a string, here a sequence of pieces: the    *)
(* separator, or a text without separator.  A path is the sequence of the  *)
(* names from the root down.                                               *)
(***************************************************************************)
ByteValues == {0, 77, 255}
ByteStrings == SeqsUpTo(ByteValues, MaxBytes)

Pad == 64

\* base64.b64encode
RECURSIVE b64encode(_)
b64encode(b) ==
    CASE Len(b) = 0 -> <<>>
      [] Len(b) = 1 ->
           <<b[1] \div 4, (b[1] % 4) * 16, Pad, Pad>>
      [] Len(b) = 2 ->
           <<b[1] \div 4, (b[1] % 4) * 16 + b[2] \div 16,
             (b[2] % 16) * 4, Pad>>
      [] OTHER ->
           <<b[1] \div 4, (b[1] % 4) * 16 + b[2] \div 16,
             (b[2] % 16) * 4 + b[3] \div 64, b[3] % 64>>
               \o b64encode(SubSeq(b, 4, Len(b)))

\* base64.b64decode: ok is FALSE where it raises binascii.Error
RECURSIVE b64decode(_)
b64decode(t) ==
    IF t = <<>>
    THEN [ok |-> TRUE, bytes |-> <<>>]
    ELSE IF Len(t) < 4 \/ t[1] = Pad \/ t[2] = Pad
         THEN [ok |-> FALSE, bytes |-> <<>>]
         ELSE LET b1 == t[1] * 4 + t[2] \div 16
                  b2 == (t[2] % 16) * 16 + t[3] \div 4
                  b3 == (t[3] % 4) * 64 + t[4]
                  rest == b64decode(SubSeq(t, 5, Len(t)))
              IN CASE t[3] = Pad -> [ok |-> TRUE, bytes |-> <<b1>>]
                   [] t[3] # Pad /\ t[4] = Pad ->
                        [ok |-> TRUE, bytes |-> <<b1, b2>>]
                   [] OTHER ->
                        [ok |-> rest.ok, bytes |-> <<b1, b2, b3>> \o rest.bytes]

SEP == "/"
UP == ".."
NamePieces == {"f", UP, SEP}
Filenames == SeqsUpTo(NamePieces, MaxName)

\* FILES_DIR = os.path.join(os.path.dirname(os.path.abspath(__file__)),
\* "files"); os.makedirs(FILES_DIR, exist_ok=True)
FILES_DIR == << <<"agent">>, <<"files">> >>
Dirs == {SubSeq(FILES_DIR, 1, n) : n \in 0..Len(FILES_DIR)}

\* The system follows the names of a path one by one from the directory at.
RECURSIVE Walk(_, _)
Walk(at, names) ==
    IF names = <<>>
    THEN at
    ELSE IF ~at.ok \/ at.path \notin Dirs
         THEN [ok |-> FALSE, path |-> at.path]
         ELSE LET n == Head(names)
                  to == IF n = <<UP>>
                        THEN SubSeq(at.path, 1, Len(at.path) - 1)
                        ELSE Append(at.path, n)
              IN Walk([ok |-> TRUE, path |-> to], Tail(names))

\* os.path.join(dir, name) as the system resolves it: a name that starts
\* with the separator replaces dir, and a name that ends with it has to be
\* a directory.
os_path_join(dir, name) ==
    LET to == Walk([ok |-> TRUE,
                    path |-> IF name # <<>> /\ Head(name) = SEP
                             THEN <<>> ELSE dir],
                   Runs(name, SEP, <<>>, <<>>))
    IN [ok |-> /\ to.ok
               /\ (name # <<>> /\ name[Len(name)] = SEP) => to.path \in Dirs,
        path |-> to.path]

\* os.path.exists
os_path_exists(fs, p) ==
    p.ok /\ (p.path \in Dirs \/ \E e \in fs : e.path = p.path)

\* open(file_path, 'wb') succeeds.
Writable(p) == p.ok /\ p.path \notin Dirs

\* f.write(content)
Write(fs, p, b) ==
    {e \in fs : e.path # p.path} \cup {[path |-> p.path, content |-> b]}

\* os.listdir
listdir(fs, dir) ==
    {e.path[Len(e.path)] : e \in {x \in fs : SubSeq(x.path, 1, Len(x.path) - 1) = dir}}

\* What json.loads returns for a frame; NonJson is a frame it rejects.
NoData ==
    [type |-> "none", command |-> "none", filename |-> <<>>,
     content |-> <<>>, file |-> <<>>, id |-> 0]

Command(c, name, text, n) ==
    [NoData EXCEPT !.type = "command", !.command = c, !.filename = name,
                   !.content = text, !.id = n]

\* What the agent sends; re is not on the wire: the frame it answers.
NoReply ==
    [type |-> "none", status |-> "none", message |-> "none",
     command |-> "none", filename |-> <<>>, files |-> {}, re |-> 0]

Response(st, text) ==
    [NoReply EXCEPT !.type = "response", !.status = st, !.message = text]

Out(r, fs) == [reply |-> r, files |-> fs]

\* How the request to the XMF server goes.
XmfOutcomes == {"200", "refused", "unreachable"}

Vocabulary ==
    {"ping", "download", "list_files", "delete_file", "get_know_devices"}

\* The branches of handle_command for the commands it knows.
handle_known(m, fs, xmf) ==
    CASE m.command = "ping" -> Out(Response("ok", "pong"), fs)
      [] m.command = "download" ->
           IF m.filename = <<>> \/ m.content = <<>>
           THEN Out(Response("error", "Missing filename or content"), fs)
           ELSE LET content == b64decode(m.content)
                    file_path == os_path_join(FILES_DIR, m.filename)
                IN IF content.ok /\ Writable(file_path)
                   THEN Out([Response("success",
                                      "File downloaded successfully")
                               EXCEPT !.filename = m.filename],
                            Write(fs, file_path, content.bytes))
                   ELSE Out(Response("error", "Error downloading file"), fs)
      [] m.command = "list_files" ->
           Out([NoReply EXCEPT !.type = "agent_files",
                               !.files = listdir(fs, FILES_DIR)], fs)
      [] m.command = "delete_file" ->
           LET file_path == os_path_join(FILES_DIR, m.filename)
           IN CASE m.filename = <<>> ->
                     Out(Response("error", "Missing filename"), fs)
                [] m.filename # <<>> /\ ~os_path_exists(fs, file_path) ->
                     Out(Response("error", "File not found"), fs)
                [] m.filename # <<>> /\ os_path_exists(fs, file_path)
                     /\ file_path.path \in Dirs ->
                     \* os.remove raises on a directory
                     Out(Response("error", "Error deleting file"), fs)
                [] OTHER ->
                     Out([Response("success", "File deleted successfully")
                            EXCEPT !.filename = m.filename],
                         {e \in fs : e.path # file_path.path})
      [] OTHER ->
           Out([Response(IF xmf = "200" THEN "ok" ELSE "error",
                         CASE xmf = "200" -> "none"
                           [] xmf = "refused" -> "Error del servidor XMF"
                           [] OTHER -> "Error al conectar con el servidor XMF")
                  EXCEPT !.command = m.command], fs)

\* handle_command without its last branch: it returns None, sent as null.
handle_command_no_else(m, fs, xmf) ==
    IF m.command \in Vocabulary
    THEN handle_known(m, fs, xmf)
    ELSE Out([NoReply EXCEPT !.type = "null"], fs)

handle_command(m, fs, xmf) ==
    IF m.command \in Vocabulary
    THEN handle_known(m, fs, xmf)
    ELSE Out(Response("error", "Comando desconocido"), fs)

(***************************************************************************)
(* The registry as a value threaded through the statements of one step.    *)
(***************************************************************************)
Reg ==
    [clients |-> connected_clients, agents |-> connected_agents,
     inbox |-> inbox, removal |-> removal, ok |-> TRUE, hung |-> FALSE]

Commit(st) ==
    /\ connected_clients' = st.clients
    /\ connected_agents' = st.agents
    /\ inbox' = st.inbox
    /\ removal' = st.removal

NoRemoval == [clients |-> {}, sole |-> FALSE, by |-> "none"]

\* set.remove / the guarded removes: the history of the removal is kept.
RemoveAgent(st, a, cause) ==
    IF a \in st.agents
    THEN [st EXCEPT !.agents = @ \ {a},
                    !.removal[a] = [clients |-> st.clients,
                                    sole |-> (st.agents = {a}),
                                    by |-> cause]]
    ELSE st

RemoveClient(st, c) == [st EXCEPT !.clients = @ \ {c}]

RemoveFrom(st, R, t, cause) ==
    CASE R = "agents" -> RemoveAgent(st, t, cause)
      [] R = "clients" -> RemoveClient(st, t)
      [] OTHER -> st

\* send_json with the frame put ahead of the frames sent before.
send_json_lifo(st, t, m) ==
    CASE st.hung -> st
      [] ~st.hung /\ ~alive[t] -> [st EXCEPT !.ok = FALSE]
      [] ~st.hung /\ alive[t] /\ t \in stalled -> [st EXCEPT !.hung = TRUE]
      [] OTHER -> [st EXCEPT !.inbox[t] = <<m>> \o @, !.ok = TRUE]

\* websocket.send_json: the frame reaches the peer while its transport is
\* open, and raises otherwise.  The await does not return (hung) while the
\* peer does not read; a task that hangs runs no further statement.
send_json(st, t, m) ==
    CASE st.hung -> st
      [] ~st.hung /\ ~alive[t] -> [st EXCEPT !.ok = FALSE]
      [] ~st.hung /\ alive[t] /\ t \in stalled -> [st EXCEPT !.hung = TRUE]
      [] OTHER -> [st EXCEPT !.inbox[t] = Append(@, m), !.ok = TRUE]

\* send_websocket_message of main.py with the frame handed to the transport
\* twice.
send_websocket_message_twice(st, t, m, R) ==
    LET e == IF m.big THEN Summary(m) ELSE m
        r == send_json(send_json(st, t, e), t, e)
    IN IF r.ok THEN r
       ELSE [RemoveFrom(r, R, t, "send") EXCEPT !.ok = FALSE]

\* main.py send_websocket_message: size policy, then send; a failure
\* removes the peer from remove_from when it is still there.
send_websocket_message(st, t, m, R) ==
    LET r == send_json(st, t, IF m.big THEN Summary(m) ELSE m)
    IN IF r.ok THEN r
       ELSE [RemoveFrom(r, R, t, "send") EXCEPT !.ok = FALSE]

\* routes/websocket.py send_websocket_message: no size policy, no result.
routes_send_websocket_message(st, t, m, R) ==
    LET r == send_json(st, t, m)
    IN IF r.ok THEN r
       ELSE [RemoveFrom(r, R, t, "send") EXCEPT !.ok = FALSE]

(***************************************************************************)
(* One step of a task k: the registry it leaves, where it suspends next,   *)
(* its locals, and the exception that ended it when p = "done"; a task     *)
(* whose send hangs stays in "hung".  The                                  *)
(* server closes the socket of a handler that returns; no handler closes   *)
(* its socket itself.                                                      *)
(***************************************************************************)
Step(k, st, p, m, sn, se, fa, su, exc) ==
    LET q == IF st.hung THEN "hung" ELSE p
    IN /\ Commit(st)
       /\ pc' = [pc EXCEPT ![k] = q]
       /\ cur' = [cur EXCEPT ![k] = m]
       /\ snap' = [snap EXCEPT ![k] = sn]
       /\ seen' = [seen EXCEPT ![k] = se]
       /\ fails' = [fails EXCEPT ![k] = fa]
       /\ success' = [success EXCEPT ![k] = su /\ ~st.hung]
       /\ raised' = [raised EXCEPT ![k] = IF st.hung THEN "none" ELSE exc]
       /\ alive' = IF q = "done" /\ k \in Conn
                   THEN [alive EXCEPT ![k] = FALSE] ELSE alive
       /\ closeCode' = IF q = "done" /\ k \in Conn /\ alive[k]
                       THEN [closeCode EXCEPT ![k] = "handler returned"]
                       ELSE closeCode

\* The task is outside a loop: it waits in p, or has ended with exc, and
\* holds no loop locals.
Idle(k, st, p, exc) == Step(k, st, p, Blank, {}, {}, {}, FALSE, exc)

\* The loops that keep a success flag: the one of /ws in main.py and the
\* one of download_file.
HasFlag(k, p) ==
    \/ p = "dl_file"
    \/ p = "fan" /\ impl = "main" /\ role[k] = "client"

\* The first turn of a loop over the members S that sends m: t is the
\* member visited, st the registry after the send.
Enter(k, st, p, m, S, t) ==
    Step(k, st, p, m, S, {t}, IF st.ok THEN {} ELSE {t},
         HasFlag(k, p) /\ st.ok, "none")

\* A later turn of the loop of task k.
Turn(k, st, t) ==
    Step(k, st, pc[k], cur[k], snap[k], seen[k] \cup {t},
         IF st.ok THEN fails[k] ELSE fails[k] \cup {t},
         HasFlag(k, pc[k]) /\ (success[k] \/ st.ok), "none")

\* receive_json hands frame m to the handler.
Read(m) ==
    /\ frames < MaxFrames
    /\ frames' = frames + 1
    /\ lastIn' = m
    /\ unserved' = IF /\ role[m.src] = "client"
                      /\ m.type # NonJson
                      /\ connected_agents = {}
                   THEN unserved \cup {m.id} ELSE unserved

\* An accept that takes up again a connection whose handler has returned.
Fresh_again(c) ==
    pc[c] \in {"new", "done"} /\ \A d \in Conn : d < c => pc[d] # "new"

\* Connections are accepted in the order of their numbers.
Fresh(c) == pc[c] = "new" /\ \A d \in Conn : d < c => pc[d] # "new"

\* The cookies of the browser, by name.
NoJar == [access_token |-> NoCookie, token |-> NoCookie]

\* Nobody has logged in or out.
NoLogin == [user |-> "nobody", status |-> 0]

\* The server after the module is loaded; FILES_DIR holds one file.
InitCore ==
    /\ impl \in {"main", "routes"}
    /\ connected_clients = {}
    /\ connected_agents = {}
    /\ role = [c \in Conn |-> "none"]
    /\ token \in {[c \in Conn |-> tk] : tk \in Tokens}
    /\ alive = [c \in Conn |-> TRUE]
    /\ stalled = {}
    /\ closeCode = [c \in Conn |-> "none"]
    /\ admits = [c \in Conn |-> 0]
    /\ pc = [k \in Task |-> "new"]
    /\ cur = [k \in Task |-> Blank]
    /\ snap = [k \in Task |-> {}]
    /\ seen = [k \in Task |-> {}]
    /\ fails = [k \in Task |-> {}]
    /\ success = [k \in Task |-> FALSE]
    /\ raised = [k \in Task |-> "none"]
    /\ inbox = [c \in Conn |-> <<>>]
    /\ frames = 0
    /\ lastIn = Blank
    /\ unserved = {}
    /\ removal = [c \in Conn |-> NoRemoval]
    /\ kind = [r \in Req |-> "none"]
    /\ httpStatus = [r \in Req |-> 0]
    /\ store = {"f"}
    /\ asked = [r \in Req |-> NoAsk]
    /\ jar = NoJar
    /\ logged = NoLogin
    /\ current_user = "unset"
    /\ hits = 0
    /\ taken = 0

\* AgentWebSocket() and the first turn of connect; the files directory is
\* empty.
InitAgent ==
    /\ apc = "connecting"
    /\ is_connected = FALSE
    /\ attempts = 1
    /\ sleeps = 0
    /\ delay = 0
    /\ lastEnd = "none"
    /\ handled = 0
    /\ got = <<>>
    /\ outbox = <<>>
    /\ response = NoReply
    /\ data = NoData
    /\ files = {}
    /\ file_content = <<>>

\* No request has come.
InitGate ==
    /\ cookie = NoCookie
    /\ extracted = Unset

Init == InitCore /\ InitAgent /\ InitGate

\* A request arrives with any cookie.
InitToken ==
    /\ InitCore
    /\ impl = "main"
    /\ token = [c \in Conn |-> "valid"]
    /\ InitAgent
    /\ cookie \in Cookies
    /\ extracted = Unset

\* get_current_user: token = get_token_from_cookie(request)
get_current_user ==
    /\ ~extracted.called
    /\ extracted' = get_token_from_cookie(cookie)
    /\ UNCHANGED <<impl, agentIO, agentProc, cookie, stalled, conns, alive,
                   closeCode, locals, registry, input, kind, httpStatus,
                   aside>>

\* The double quote of a cookie value on the wire.
DQ == "\""

\* response.set_cookie(key, value): a value with a space goes quoted into
\* the Set-Cookie header, and the browser keeps it as it came.
set_cookie(j, key, value) ==
    [j EXCEPT ![key] =
       [present |-> TRUE,
        value |-> IF \E i \in 1..Len(value) : value[i] = SP
                  THEN <<DQ>> \o value \o <<DQ>>
                  ELSE value]]

\* response.delete_cookie(key): the browser drops the cookie.
delete_cookie(j, key) == [j EXCEPT ![key] = NoCookie]

\* request.cookies: the value of the Cookie header without its quotes.
request_cookies(ck) ==
    IF ck.present /\ Len(ck.value) >= 2 /\ Head(ck.value) = DQ
       /\ ck.value[Len(ck.value)] = DQ
    THEN [present |-> TRUE, value |-> SubSeq(ck.value, 2, Len(ck.value) - 1)]
    ELSE ck

Session(j, who, code) ==
    /\ jar' = j
    /\ logged' = [user |-> who, status |-> code]
    /\ UNCHANGED <<impl, gate, disk, current_user, hits, taken, agentIO,
                   agentProc, stalled, conns, alive, closeCode, locals,
                   registry, input, kind, httpStatus>>

\* login of main.py with the cookie named as routes/auth.py names it.
main_login_token_key ==
    /\ impl = "main"
    /\ \E email \in Users, authenticate_user \in BOOLEAN :
         IF ~authenticate_user
         THEN Session(jar, logged.user, 401)
         ELSE Session(set_cookie(jar, "token",
                                 <<"Bearer", SP, create_access_token(email)>>),
                      email, 302)

\* POST /login of main.py
main_login ==
    /\ impl = "main"
    /\ \E email \in Users, authenticate_user \in BOOLEAN :
         IF ~authenticate_user
         THEN Session(jar, logged.user, 401)
         ELSE Session(set_cookie(jar, "access_token",
                                 <<"Bearer", SP, create_access_token(email)>>),
                      email, 302)

\* POST /logout of main.py
main_logout ==
    /\ impl = "main"
    /\ Session(delete_cookie(jar, "access_token"), "out", 302)

\* POST /login of routes/auth.py: the module does not import the name User,
\* db.query(User) raises NameError and the except clause answers 500; the
\* lines that set the cookie "token" are never reached.
routes_login ==
    /\ impl = "routes"
    /\ Session(jar, logged.user, 500)

\* GET /logout of routes/auth.py
routes_logout ==
    /\ impl = "routes"
    /\ Session(delete_cookie(jar, "token"), "out", 307)

\* GET /dashboard: the browser sends its cookies and the handler asks
\* get_current_user who it is.
dashboard ==
    /\ hits < MaxHits
    /\ hits' = hits + 1
    /\ cookie' = request_cookies(jar.access_token)
    /\ extracted' = get_token_from_cookie(cookie')
    /\ current_user' = get_current_user_of(cookie')
    /\ UNCHANGED <<impl, disk, jar, logged, taken, agentIO, agentProc,
                   stalled, conns, alive, closeCode, locals, registry, input,
                   kind, httpStatus>>

\* The peer closes its end, or the network drops the connection.
PeerCloses(c) ==
    /\ pc[c] \notin {"new", "done"}
    /\ alive[c]
    /\ c \notin stalled
    /\ alive' = [alive EXCEPT ![c] = FALSE]
    /\ UNCHANGED <<impl, gate, aside, agentIO, agentProc,
                   stalled, conns, closeCode, locals, registry, input, kind,
                   httpStatus>>

\* The peer stops reading and its buffers fill up: from now on a send to it
\* never completes, neither with success nor with an error.
PeerStalls(c) ==
    /\ pc[c] \notin {"new", "done"}
    /\ alive[c]
    /\ c \notin stalled
    /\ stalled' = stalled \cup {c}
    /\ UNCHANGED <<impl, gate, aside, agentIO, agentProc,
                   conns, alive, closeCode, locals,
                   registry, input, kind, httpStatus>>

(***************************************************************************)
(* main.py, /ws                                                            *)
(***************************************************************************)
\* websocket_endpoint telling the new client that an agent is connected
\* without looking at the agent set.
main_websocket_endpoint_accept_assumed(c) ==
    /\ impl = "main"
    /\ Fresh(c)
    /\ LET st1 == [Reg EXCEPT !.clients = @ \cup {c}]
           st2 == send_websocket_message(st1, c, AgentStatus(TRUE, 0), "none")
       IN Idle(c, st2, "recv", "none")
    /\ role' = [role EXCEPT ![c] = "client"]
    /\ admits' = [admits EXCEPT ![c] = @ + 1]
    /\ UNCHANGED <<impl, gate, aside, agentIO, agentProc,
                   stalled, token, input, kind, httpStatus>>

main_websocket_endpoint_accept(c) ==
    /\ impl = "main"
    /\ Fresh(c)
    /\ LET st1 == [Reg EXCEPT !.clients = @ \cup {c}]
           st2 == send_websocket_message(
                      st1, c, AgentStatus(connected_agents # {}, 0), "none")
       IN Idle(c, st2, "recv", "none")
    /\ role' = [role EXCEPT ![c] = "client"]
    /\ admits' = [admits EXCEPT ![c] = @ + 1]
    /\ UNCHANGED <<impl, gate, aside, agentIO, agentProc,
                   stalled, token, input, kind, httpStatus>>

\* WebSocketDisconnect, then the finally clause
main_websocket_endpoint_disconnect(c) ==
    /\ impl = "main"
    /\ role[c] = "client"
    /\ pc[c] = "recv"
    /\ ~alive[c]
    /\ Idle(c, RemoveClient(Reg, c), "done", "none")
    /\ UNCHANGED <<impl, gate, aside, agentIO, agentProc,
                   stalled, conns, input, kind, httpStatus>>

main_websocket_endpoint_receive(c) ==
    /\ impl = "main"
    /\ role[c] = "client"
    /\ pc[c] = "recv"
    /\ alive[c]
    /\ \E k \in ClientFrameKinds :
         LET m == ClientFrame(k, c, frames + 1)
         IN /\ Read(m)
            /\ CASE m.type = NonJson ->
                      \* receive_json raises: the finally clause, then
                      \* the outer except
                      Idle(c, RemoveClient(Reg, c), "done",
                           "JSONDecodeError")
                 [] m.type # NonJson /\ connected_agents = {} ->
                      Idle(c, send_websocket_message(
                                  Reg, c,
                                  ErrorEnv("No hay agentes conectados"),
                                  "none"),
                           "recv", "none")
                 [] OTHER ->
                      \E t \in connected_agents :
                        Enter(c, send_websocket_message(
                                     Reg, t, m, "agents"),
                              "fan", m, connected_agents, t)
    /\ UNCHANGED <<impl, gate, aside, agentIO, agentProc,
                   stalled, conns, kind, httpStatus>>

main_websocket_endpoint_resume(c) ==
    /\ impl = "main"
    /\ role[c] = "client"
    /\ pc[c] = "fan"
    /\ LET rem == snap[c] \ seen[c]
       IN CASE rem = {} /\ success[c] -> Idle(c, Reg, "recv", "none")
            [] rem = {} /\ ~success[c] ->
                 \* the loop is over and no agent took the command
                 Idle(c, send_websocket_message(
                             Reg, c,
                             ErrorEnv("No se pudo enviar el comando a ningún agente"),
                             "none"),
                      "recv", "none")
            [] OTHER ->
                 \E t \in rem :
                   Turn(c, send_websocket_message(Reg, t, cur[c], "agents"), t)
    /\ UNCHANGED <<impl, gate, aside, agentIO, agentProc,
                   stalled, conns, input, kind, httpStatus>>

(***************************************************************************)
(* main.py, /ws/agent                                                      *)
(***************************************************************************)
\* agent_websocket adding the connection to the client set as well.
main_agent_websocket_accept_both(c) ==
    /\ impl = "main"
    /\ Fresh(c)
    /\ Idle(c, [Reg EXCEPT !.agents = @ \cup {c}, !.clients = @ \cup {c}],
            "recv", "none")
    /\ role' = [role EXCEPT ![c] = "agent"]
    /\ admits' = [admits EXCEPT ![c] = @ + 1]
    /\ UNCHANGED <<impl, gate, aside, agentIO, agentProc,
                   stalled, token, input, kind, httpStatus>>

main_agent_websocket_accept(c) ==
    /\ impl = "main"
    /\ Fresh(c)
    /\ Idle(c, [Reg EXCEPT !.agents = @ \cup {c}], "recv", "none")
    /\ role' = [role EXCEPT ![c] = "agent"]
    /\ admits' = [admits EXCEPT ![c] = @ + 1]
    /\ UNCHANGED <<impl, gate, aside, agentIO, agentProc,
                   stalled, token, input, kind, httpStatus>>

\* WebSocketDisconnect, then the finally clause
main_agent_websocket_disconnect(c) ==
    /\ impl = "main"
    /\ role[c] = "agent"
    /\ pc[c] = "recv"
    /\ ~alive[c]
    /\ Idle(c, RemoveAgent(Reg, c, "disconnect"), "done", "none")
    /\ UNCHANGED <<impl, gate, aside, agentIO, agentProc,
                   stalled, conns, input, kind, httpStatus>>

\* data = await websocket.receive_json() has given m: the relay to the
\* clients begins.
main_agent_websocket_frame(c, m) ==
    /\ impl = "main"
    /\ role[c] = "agent"
    /\ pc[c] = "recv"
    /\ alive[c]
    /\ Read(m)
    /\ CASE m.type = NonJson ->
              Idle(c, RemoveAgent(Reg, c, "error"), "done",
                   "JSONDecodeError")
         [] m.type # NonJson /\ connected_clients = {} ->
              Idle(c, send_websocket_message(Reg, c, Ack, "none"),
                   "recv", "none")
         [] OTHER ->
              \E t \in connected_clients :
                Enter(c, send_websocket_message(Reg, t, m, "clients"),
                      "fan", m, connected_clients, t)
    /\ UNCHANGED <<impl, gate, disk, session, agentIO, agentProc,
                   stalled, conns, kind, httpStatus>>

main_agent_websocket_receive(c) ==
    /\ \E k \in AgentFrameKinds :
         main_agent_websocket_frame(c, AgentFrame(k, c, frames + 1))
    /\ UNCHANGED taken

main_agent_websocket_resume(c) ==
    /\ impl = "main"
    /\ role[c] = "agent"
    /\ pc[c] = "fan"
    /\ LET rem == snap[c] \ seen[c]
       IN IF rem = {}
          THEN \* the acknowledgement to the agent itself
               Idle(c, send_websocket_message(Reg, c, Ack, "none"),
                    "recv", "none")
          ELSE \E t \in rem :
                 Turn(c, send_websocket_message(Reg, t, cur[c], "clients"), t)
    /\ UNCHANGED <<impl, gate, aside, agentIO, agentProc,
                   stalled, conns, input, kind, httpStatus>>

(***************************************************************************)
(* Iterating the live set S (for x in S, with awaits in the body).  The    *)
(* set iterator raises RuntimeError when the size of S differs from the    *)
(* size it had when the loop started.  With the size unchanged, a member   *)
(* added since then is visited or skipped, depending on where it landed in *)
(* the hash table.                                                         *)
(***************************************************************************)
LiveChanged(S, k) == Cardinality(S) # Cardinality(snap[k])
LiveOld(S, k) == (snap[k] \ seen[k]) \cap S
LiveNew(S, k) == S \ (snap[k] \cup seen[k])
LiveNext(S, k) == LiveOld(S, k) \cup LiveNew(S, k)

(***************************************************************************)
(* routes/websocket.py, /ws                                                *)
(***************************************************************************)
routes_websocket_endpoint_accept(c) ==
    /\ impl = "routes"
    /\ Fresh(c)
    /\ LET st1 == [Reg EXCEPT !.clients = @ \cup {c}]
           st2 == send_json(st1, c, AgentStatus(connected_agents # {}, 0))
       IN Idle(c, st2, "recv", "none")
    /\ role' = [role EXCEPT ![c] = "client"]
    /\ admits' = [admits EXCEPT ![c] = @ + 1]
    /\ UNCHANGED <<impl, gate, aside, agentIO, agentProc,
                   stalled, token, input, kind, httpStatus>>

\* except WebSocketDisconnect
routes_websocket_endpoint_disconnect(c) ==
    /\ impl = "routes"
    /\ role[c] = "client"
    /\ pc[c] = "recv"
    /\ ~alive[c]
    /\ Idle(c, RemoveClient(Reg, c), "done", "none")
    /\ UNCHANGED <<impl, gate, aside, agentIO, agentProc,
                   stalled, conns, input, kind, httpStatus>>

routes_websocket_endpoint_receive(c) ==
    /\ impl = "routes"
    /\ role[c] = "client"
    /\ pc[c] = "recv"
    /\ alive[c]
    /\ \E k \in ClientFrameKinds :
         LET m == ClientFrame(k, c, frames + 1)
             reply(text) ==
                 Idle(c, send_json(Reg, c, ErrorEnv(text)),
                      "recv", "none")
         IN /\ Read(m)
            /\ CASE m.type = NonJson -> reply("Invalid JSON message")
                 [] m.type = "command" /\ m.command = "none" ->
                      reply("No command specified")
                 [] m.type = "command" /\ m.command # "none"
                      /\ connected_agents = {} ->
                      reply("No agent connected")
                 [] m.type = "command" /\ m.command # "none"
                      /\ connected_agents # {} ->
                      \E t \in connected_agents :
                        LET st == send_json(Reg, t, m)
                        IN IF st.ok
                           THEN Enter(c, st, "fan", m,
                                      connected_agents, t)
                           ELSE \* the send raises out of the loop
                                Idle(c, RemoveClient(st, c), "done",
                                     "SendError")
                 [] OTHER -> Idle(c, Reg, "recv", "none")
    /\ UNCHANGED <<impl, gate, aside, agentIO, agentProc,
                   stalled, conns, kind, httpStatus>>

routes_websocket_endpoint_resume(c) ==
    /\ impl = "routes"
    /\ role[c] = "client"
    /\ pc[c] = "fan"
    /\ IF LiveChanged(connected_agents, c)
       THEN Idle(c, RemoveClient(Reg, c), "done", "RuntimeError")
       ELSE \/ /\ LiveOld(connected_agents, c) = {}
               /\ Idle(c, Reg, "recv", "none")
            \/ \E t \in LiveNext(connected_agents, c) :
                 LET st == send_json(Reg, t, cur[c])
                 IN IF st.ok
                    THEN Turn(c, st, t)
                    ELSE Idle(c, RemoveClient(st, c), "done", "SendError")
    /\ UNCHANGED <<impl, gate, aside, agentIO, agentProc,
                   stalled, conns, input, kind, httpStatus>>

(***************************************************************************)
(* routes/websocket.py, /agent                                             *)
(***************************************************************************)
\* The first turn of a loop "for client in connected_clients" that sends m
\* with send_websocket_message and goes on in p; q is where the handler is
\* when there is nobody to send to.
routes_broadcast_start(c, st0, m, p, q) ==
    IF st0.clients = {}
    THEN Idle(c, st0, q, "none")
    ELSE \E t \in st0.clients :
           Enter(c, routes_send_websocket_message(st0, t, m, "clients"),
                 p, m, st0.clients, t)

routes_agent_websocket_accept(c) ==
    /\ impl = "routes"
    /\ Fresh(c)
    /\ routes_broadcast_start(c, [Reg EXCEPT !.agents = @ \cup {c}],
                              AgentStatus(TRUE, c), "bcast_on", "recv")
    /\ role' = [role EXCEPT ![c] = "agent"]
    /\ admits' = [admits EXCEPT ![c] = @ + 1]
    /\ UNCHANGED <<impl, gate, aside, agentIO, agentProc,
                   stalled, token, input, kind, httpStatus>>

\* except WebSocketDisconnect: remove, then tell the clients
routes_agent_websocket_disconnect(c) ==
    /\ impl = "routes"
    /\ role[c] = "agent"
    /\ pc[c] = "recv"
    /\ ~alive[c]
    /\ IF c \in connected_agents
       THEN routes_broadcast_start(
                c, RemoveAgent(Reg, c, "disconnect"),
                AgentStatus(FALSE, c), "bcast_off", "done")
       ELSE Idle(c, Reg, "done", "KeyError")
    /\ UNCHANGED <<impl, gate, aside, agentIO, agentProc,
                   stalled, conns, input, kind, httpStatus>>

routes_agent_websocket_receive(c) ==
    /\ impl = "routes"
    /\ role[c] = "agent"
    /\ pc[c] = "recv"
    /\ alive[c]
    /\ \E k \in AgentFrameKinds :
         LET m == AgentFrame(k, c, frames + 1)
         IN /\ Read(m)
            /\ IF m.type = NonJson
               THEN \* except Exception
                    Idle(c, RemoveAgent(Reg, c, "error"), "done",
                         "JSONDecodeError")
               ELSE routes_broadcast_start(c, Reg, m, "fan", "recv")
    /\ UNCHANGED <<impl, gate, aside, agentIO, agentProc,
                   stalled, conns, kind, httpStatus>>

routes_agent_websocket_resume(c) ==
    /\ impl = "routes"
    /\ role[c] = "agent"
    /\ pc[c] \in {"bcast_on", "fan", "bcast_off"}
    /\ IF LiveChanged(connected_clients, c)
       THEN \* RuntimeError: only the message loop is inside the try
            IF pc[c] = "fan"
            THEN Idle(c, RemoveAgent(Reg, c, "error"), "done", "RuntimeError")
            ELSE Idle(c, Reg, "done", "RuntimeError")
       ELSE \/ /\ LiveOld(connected_clients, c) = {}
               /\ Idle(c, Reg, IF pc[c] = "bcast_off" THEN "done" ELSE "recv",
                       "none")
            \/ \E t \in LiveNext(connected_clients, c) :
                 Turn(c, routes_send_websocket_message(
                             Reg, t, cur[c], "clients"), t)
    /\ UNCHANGED <<impl, gate, aside, agentIO, agentProc,
                   stalled, conns, input, kind, httpStatus>>

(***************************************************************************)
(* main.py, the HTTP endpoints that send to the agents                     *)
(***************************************************************************)
DownloadEvent(r) ==
    [Blank EXCEPT !.type = "download", !.file = "f", !.src = r]

DownloadCommand(r, b) ==
    [Blank EXCEPT !.type = "command", !.command = "download", !.file = "f",
                  !.big = b, !.src = r]

FreshReq(r) == pc[r] = "new" /\ \A q \in Req : q < r => pc[q] # "new"

Answer(r, code) == httpStatus' = [httpStatus EXCEPT ![r] = code]

\* POST /start-download/{file_name}
start_download(r) ==
    /\ impl = "main"
    /\ FreshReq(r)
    /\ kind' = [kind EXCEPT ![r] = "start_download"]
    /\ \E ck \in RequestCookies, file_name \in ServerNames :
         LET authed == get_current_user_of(ck) \in Users
             exists == file_name \in store
         IN
         /\ asked' = [asked EXCEPT ![r] = Ask(ck, file_name)]
         /\ CASE ~authed ->
                Idle(r, Reg, "done", "HTTPException") /\ Answer(r, 401)
           [] authed /\ ~exists ->
                Idle(r, Reg, "done", "HTTPException") /\ Answer(r, 404)
           [] authed /\ exists /\ connected_agents = {} ->
                Idle(r, Reg, "done", "none") /\ Answer(r, 200)
           [] OTHER ->
                \E t \in connected_agents :
                  LET st == send_json(Reg, t, DownloadEvent(r))
                  IN /\ Enter(r, IF st.ok THEN st
                                 ELSE [RemoveAgent(st, t, "send")
                                         EXCEPT !.ok = FALSE],
                              "dl_start", DownloadEvent(r),
                              connected_agents, t)
                     /\ Answer(r, 0)
    /\ UNCHANGED <<impl, gate, store, session, taken, agentIO, agentProc,
                   stalled, conns, input>>

start_download_resume(r) ==
    /\ pc[r] = "dl_start"
    /\ IF snap[r] \ seen[r] = {}
       THEN Idle(r, Reg, "done", "none") /\ Answer(r, 200)
       ELSE \E t \in snap[r] \ seen[r] :
              LET st == send_json(Reg, t, cur[r])
              IN CASE st.ok -> Turn(r, st, t) /\ Answer(r, 0)
                   [] ~st.ok /\ t \in connected_agents ->
                        /\ Turn(r, [RemoveAgent(st, t, "send")
                                      EXCEPT !.ok = FALSE], t)
                        /\ Answer(r, 0)
                   [] OTHER ->
                        \* connected_agents.remove(agent), agent absent
                        Idle(r, st, "done", "KeyError") /\ Answer(r, 500)
    /\ UNCHANGED <<impl, gate, aside, agentIO, agentProc,
                   stalled, conns, input, kind>>

\* POST /download/{filename}: every HTTPException raised in the body is
\* caught by the handler's own except clause and answered as 500.
download_file(r) ==
    /\ impl = "main"
    /\ FreshReq(r)
    /\ kind' = [kind EXCEPT ![r] = "download_file"]
    /\ \E ck \in RequestCookies, filename \in ServerNames, b \in BOOLEAN :
         LET authed == get_current_user_of(ck) \in Users
             exists == filename \in store
         IN /\ asked' = [asked EXCEPT ![r] = Ask(ck, filename)]
            /\ IF ~authed \/ ~exists \/ connected_agents = {}
               THEN Idle(r, Reg, "done", "HTTPException") /\ Answer(r, 500)
               ELSE \E t \in connected_agents :
                      /\ Enter(r, send_json(Reg, t, DownloadCommand(r, b)),
                               "dl_file", DownloadCommand(r, b),
                               connected_agents, t)
                      /\ Answer(r, 0)
    /\ UNCHANGED <<impl, gate, store, session, taken, agentIO, agentProc,
                   stalled, conns, input>>

download_file_resume(r) ==
    /\ pc[r] = "dl_file"
    /\ IF LiveChanged(connected_agents, r)
       THEN Idle(r, Reg, "done", "RuntimeError") /\ Answer(r, 500)
       ELSE \/ /\ LiveOld(connected_agents, r) = {}
               /\ Idle(r, Reg, "done",
                       IF success[r] THEN "none" ELSE "HTTPException")
               /\ Answer(r, IF success[r] THEN 200 ELSE 500)
            \/ \E t \in LiveNext(connected_agents, r) :
                 Turn(r, send_json(Reg, t, cur[r]), t) /\ Answer(r, 0)
    /\ UNCHANGED <<impl, gate, aside, agentIO, agentProc,
                   stalled, conns, input, kind>>

\* A request that is served in one step: the answer and what it leaves.
Served(r, k, ask, code, exc) ==
    /\ kind' = [kind EXCEPT ![r] = k]
    /\ asked' = [asked EXCEPT ![r] = ask]
    /\ Idle(r, Reg, "done", exc)
    /\ Answer(r, code)
    /\ UNCHANGED <<impl, gate, session, taken, agentIO, agentProc, stalled,
                   conns, input>>

\* GET /list-files: the HTTPException is raised again as it is.
list_files(r) ==
    /\ impl = "main"
    /\ FreshReq(r)
    /\ \E ck \in RequestCookies :
         IF get_current_user_of(ck) \in Users
         THEN Served(r, "list_files", Ask(ck, "none"), 200, "none")
         ELSE Served(r, "list_files", Ask(ck, "none"), 401, "HTTPException")
    /\ UNCHANGED store

\* GET /secure-file/{file_name}
get_secure_file(r) ==
    /\ impl = "main"
    /\ FreshReq(r)
    /\ \E ck \in RequestCookies, file_name \in ServerNames,
          api_key \in BOOLEAN :
         LET ask == Ask(ck, file_name)
         IN CASE get_current_user_of(ck) \notin Users ->
                   Served(r, "get_secure_file", ask, 401, "HTTPException")
              [] get_current_user_of(ck) \in Users /\ ~api_key ->
                   Served(r, "get_secure_file", ask, 403, "HTTPException")
              [] get_current_user_of(ck) \in Users /\ api_key
                   /\ file_name \notin store ->
                   Served(r, "get_secure_file", ask, 404, "HTTPException")
              [] OTHER -> Served(r, "get_secure_file", ask, 200, "none")
    /\ UNCHANGED store

\* POST /upload_files: the HTTPException is raised again as it is; an
\* UploadFile of a Starlette that has no stream method raises
\* AttributeError, answered as 500.
upload_files(r) ==
    /\ impl = "main"
    /\ FreshReq(r)
    /\ \E ck \in RequestCookies, filename \in ServerNames,
          streams \in BOOLEAN :
         LET ask == Ask(ck, filename)
         IN CASE get_current_user_of(ck) \notin Users ->
                   /\ Served(r, "upload_files", ask, 401, "HTTPException")
                   /\ UNCHANGED store
              [] get_current_user_of(ck) \in Users /\ ~streams ->
                   /\ Served(r, "upload_files", ask, 500, "HTTPException")
                   /\ UNCHANGED store
              [] OTHER ->
                   /\ Served(r, "upload_files", ask, 200, "none")
                   /\ store' = store \cup {filename}

\* delete_files removing the file before it asks who the user is.
delete_files_then_auth(r) ==
    /\ impl = "main"
    /\ FreshReq(r)
    /\ \E ck \in RequestCookies, filename \in ServerNames :
         /\ Served(r, "delete_files", Ask(ck, filename),
                   IF get_current_user_of(ck) \in Users
                      /\ filename \in store
                   THEN 200 ELSE 500,
                   IF get_current_user_of(ck) \in Users
                      /\ filename \in store
                   THEN "none" ELSE "HTTPException")
         /\ store' = store \ {filename}

\* DELETE /delete_files/{filename}: every HTTPException raised in the body
\* is caught by the handler's own except clause and answered as 500.
delete_files(r) ==
    /\ impl = "main"
    /\ FreshReq(r)
    /\ \E ck \in RequestCookies, filename \in ServerNames :
         IF get_current_user_of(ck) \in Users /\ filename \in store
         THEN /\ Served(r, "delete_files", Ask(ck, filename), 200, "none")
              /\ store' = store \ {filename}
         ELSE /\ Served(r, "delete_files", Ask(ck, filename), 500,
                        "HTTPException")
              /\ UNCHANGED store

(***************************************************************************)
(* agent.py, AgentWebSocket: the agent process and its reconnect loop.  The *)
(* server end of its connection is one of the connections above; here the  *)
(* network decides how each attempt goes.                                  *)
(***************************************************************************)
\* How an attempt can end before the connection is open: the handshake is
\* refused or invalid (websockets.exceptions.WebSocketException), or the
\* server cannot be reached (OSError, under except Exception).
ConnectFailures == {"handshake", "rejected", "unreachable"}

\* How an open connection can end: ConnectionClosed, or any other
\* exception of handle_messages (a frame that is not JSON, a failed send).
StreamEnds == {"closed", "error"}

\* The way to the sleep with self.is_connected = False forgotten.
Sleep_flag_kept(how) ==
    /\ apc' = "sleeping"
    /\ sleeps' = sleeps + 1
    /\ delay' = reconnect_delay
    /\ lastEnd' = how
    /\ handled' = 0
    /\ UNCHANGED <<attempts, is_connected>>

\* self.is_connected = False in the except clause, then
\* await asyncio.sleep(self.reconnect_delay)
Sleep(how) ==
    /\ apc' = "sleeping"
    /\ is_connected' = FALSE
    /\ sleeps' = sleeps + 1
    /\ delay' = reconnect_delay
    /\ lastEnd' = how
    /\ handled' = 0
    /\ UNCHANGED attempts

\* websockets.connect succeeds
connect_established ==
    /\ apc = "connecting"
    /\ apc' = "open"
    /\ is_connected' = TRUE
    /\ got' = <<>>
    /\ outbox' = <<>>
    /\ UNCHANGED <<attempts, sleeps, delay, lastEnd, handled, data, response,
                   files, file_content, server>>

\* websockets.connect raises
connect_failed ==
    /\ apc = "connecting"
    /\ \E how \in ConnectFailures : Sleep(how)
    /\ UNCHANGED <<agentIO, server>>

\* The frames the server end can send to the agent process.
InboundKinds ==
    {"ping", "unknown", "list_files", "get_know_devices", "download",
     "delete_file", "event", "response", "garbage", "download_up"}

Inbound(k, n) ==
    CASE k = "unknown" -> Command("status", <<>>, <<>>, n)
      [] k = "download" -> Command(k, <<"f">>, b64encode(<<77>>), n)
      [] k = "download_up" ->
           Command("download", <<UP, SEP, "f">>, b64encode(<<77>>), n)
      [] k = "delete_file" -> Command(k, <<"f">>, <<>>, n)
      [] k = "event" ->
           [NoData EXCEPT !.type = "download", !.file = <<"f">>, !.id = n]
      [] k = "response" -> [NoData EXCEPT !.type = "response", !.id = n]
      [] k = "garbage" -> [NoData EXCEPT !.type = NonJson, !.id = n]
      [] OTHER -> Command(k, <<>>, <<>>, n)

\* handle_messages answering every frame, whatever its type.
Pending_every_frame == apc = "open" /\ data.id # 0 /\ response = NoReply

\* handle_messages has decoded a command and has not sent its response.
Pending == apc = "open" /\ data.type = "command" /\ response = NoReply

\* data = json.loads(message) for the frame m
handle_messages_data(m) ==
    /\ apc = "open"
    /\ ~Pending
    /\ handled < MaxAgentMsgs
    /\ got' = Append(got, m)
    /\ data' = m
    /\ response' = NoReply
    /\ IF m.type = NonJson
       THEN \* except Exception
            Sleep("error")
       ELSE /\ handled' = handled + 1
            /\ UNCHANGED <<apc, is_connected, attempts, sleeps,
                           delay, lastEnd>>
    /\ UNCHANGED <<outbox, files, file_content, server>>

\* message = await websocket.recv(); data = json.loads(message)
handle_messages_frame ==
    \E k \in InboundKinds : handle_messages_data(Inbound(k, handled + 1))

\* handle_messages sending every response twice.
handle_messages_command_twice ==
    /\ Pending
    /\ \E xmf \in IF data.command = "get_know_devices"
                   THEN XmfOutcomes ELSE {"none"} :
         LET r == handle_command(data, files, xmf)
             sent == [r.reply EXCEPT !.re = data.id]
         IN /\ response' = r.reply
            /\ files' = r.files
            /\ outbox' = outbox \o <<sent, sent>>
            /\ UNCHANGED agentProc
    /\ UNCHANGED <<got, data, file_content, server>>

\* response = await self.handle_command(data);
\* await websocket.send(json.dumps(response)): the send raises where the
\* connection was closed meanwhile
handle_messages_command ==
    /\ Pending
    /\ \E xmf \in IF data.command = "get_know_devices"
                   THEN XmfOutcomes ELSE {"none"} :
         LET r == handle_command(data, files, xmf)
         IN /\ response' = r.reply
            /\ files' = r.files
            /\ \/ /\ outbox' = Append(outbox, [r.reply EXCEPT !.re = data.id])
                  /\ UNCHANGED agentProc
               \/ /\ Sleep("closed")
                  /\ UNCHANGED outbox
    /\ UNCHANGED <<got, data, file_content, server>>

\* websocket.recv raises; handle_messages catches the exception and
\* returns; connect leaves the async with block
handle_messages_ends ==
    /\ apc = "open"
    /\ ~Pending
    /\ \E how \in StreamEnds : Sleep(how)
    /\ UNCHANGED <<agentIO, server>>

\* connect with the loop ended after max_retries attempts.
connect_retry_capped ==
    /\ apc = "sleeping"
    /\ attempts < max_retries
    /\ apc' = "connecting"
    /\ attempts' = attempts + 1
    /\ UNCHANGED <<is_connected, sleeps, delay, lastEnd, handled, agentIO,
                   server>>

\* the sleep is over: while True goes round
connect_retry ==
    /\ apc = "sleeping"
    /\ attempts < MaxAttempts
    /\ apc' = "connecting"
    /\ attempts' = attempts + 1
    /\ UNCHANGED <<is_connected, sleeps, delay, lastEnd, handled, agentIO,
                   server>>

(***************************************************************************)
(* The agent process and the server joined: the agent process holds the    *)
(* connection AgentEnd of the server, reads what the server has sent to it *)
(* and the server reads what it has sent.                                  *)
(***************************************************************************)
AgentEnd == 1

\* json.loads of a frame the server sent, as handle_messages sees it.
FromServer(e, n) ==
    [NoData EXCEPT !.type = e.type, !.command = e.command,
                   !.file = IF e.file = "none" THEN <<>> ELSE <<e.file>>,
                   !.id = n]

\* receive_json of a frame the agent process sent, as agent_websocket
\* sees it.
ToServer(r, c, n) ==
    [Blank EXCEPT !.type = r.type, !.command = r.command,
                  !.status = r.status, !.message = r.message,
                  !.src = c, !.id = n]

\* message = await websocket.recv(): the next frame the server has sent
handle_messages_recv ==
    /\ handled < Len(inbox[AgentEnd])
    /\ handle_messages_data(FromServer(inbox[AgentEnd][handled + 1],
                                       handled + 1))

\* data = await websocket.receive_json(): the next frame the agent
\* process has sent
main_agent_websocket_reply ==
    /\ taken < Len(outbox)
    /\ taken' = taken + 1
    /\ main_agent_websocket_frame(
          AgentEnd, ToServer(outbox[taken + 1], AgentEnd, frames + 1))

\* main.py serves.
InitLoop ==
    /\ Init
    /\ impl = "main"
    /\ token = [c \in Conn |-> "valid"]

\* The handshake of the agent process: agent_websocket accepts and adds
\* the connection, websockets.connect returns.
agent_connects ==
    /\ impl = "main"
    /\ apc = "connecting"
    /\ Fresh(AgentEnd)
    /\ Idle(AgentEnd, [Reg EXCEPT !.agents = @ \cup {AgentEnd}], "recv",
            "none")
    /\ role' = [role EXCEPT ![AgentEnd] = "agent"]
    /\ admits' = [admits EXCEPT ![AgentEnd] = @ + 1]
    /\ apc' = "open"
    /\ is_connected' = TRUE
    /\ got' = <<>>
    /\ outbox' = <<>>
    /\ taken' = 0
    /\ UNCHANGED <<impl, gate, disk, session, stalled, token, input, kind,
                   httpStatus, attempts, sleeps, delay, lastEnd, handled,
                   data, response, files, file_content>>

\* The agent has decoded any command, built by download_file from any file.
InitCommand ==
    /\ InitCore
    /\ impl = "main"
    /\ token = [c \in Conn |-> "valid"]
    /\ InitGate
    /\ apc = "open"
    /\ is_connected = TRUE
    /\ attempts = 1
    /\ sleeps = 0
    /\ delay = 0
    /\ lastEnd = "none"
    /\ handled = 1
    /\ file_content \in ByteStrings
    /\ data \in {Command(c, name, b64encode(file_content), 1) :
                   c \in Vocabulary \cup {"status"}, name \in Filenames}
    /\ got = <<data>>
    /\ outbox = <<>>
    /\ response = NoReply
    /\ files \in {{}, {[path |-> Append(FILES_DIR, <<"f">>), content |-> <<0>>]}}

(***************************************************************************)
(* Properties                                                              *)
(***************************************************************************)
\* The registry set a task sends to.
Target(k) ==
    IF k \in Conn /\ role[k] = "agent"
    THEN connected_clients ELSE connected_agents

InOwnSet(c) ==
    IF role[c] = "agent"
    THEN c \in connected_agents ELSE c \in connected_clients

\* e is envelope m as a peer gets it, whole or reduced.
SameMsg(e, m) ==
    /\ e.type = m.type
    /\ e.src = m.src
    /\ e.id = m.id
    /\ e.connected = m.connected

Copies(t, m) ==
    Cardinality({i \in 1..Len(inbox[t]) : SameMsg(inbox[t][i], m)})

Quiet == \A k \in Task : pc[k] \notin Loops

\* C1: every member of the agent set presented a valid access_token at its
\* handshake; a connection with a missing or invalid token is never in it.
C1_AgentsAuthenticated ==
    \A c \in connected_agents : token[c] = "valid"

\* C2: an agent handshake with a rejected token is closed with the
\* policy-violation code and never admitted; one with a valid token is
\* added to the agent set exactly once.
C2_HandshakeGate ==
    \A c \in Conn :
      role[c] = "agent" =>
        IF token[c] = "valid"
        THEN admits[c] = 1
        ELSE admits[c] = 0 /\ closeCode[c] = "policy violation"

\* C3: a failed send to one member of the target set never ends the fan-out
\* or the handler that runs it: no task ends with the exception of a send.
C3_FailedSendIsolated ==
    \A k \in Task : raised[k] # "SendError"

\* C4: every fan-out iterates a copy of its target set, so no change of the
\* set while the fan-out is suspended raises an iteration error.
C4_NoIterationError ==
    \A k \in Task : raised[k] # "RuntimeError"

\* C5: removing a connection that is no longer in its set is a no-op: no
\* removal raises because another task removed the connection first.
C5_RemoveIdempotent ==
    \A k \in Task : raised[k] # "KeyError"

\* C6: a fan-out over N members in which exactly one member fails delivers
\* to the N-1 others, exactly once each, has removed the failed member from
\* the set when it ends, and has kept the others in it.
C6_OneFailure ==
    [][\A k \in Task :
         (pc[k] \in Loops /\ pc'[k] \notin Loops /\ Cardinality(fails[k]) = 1)
         => /\ snap[k] \subseteq seen[k]
            /\ Cardinality(seen[k] \ fails[k]) = Cardinality(snap[k]) - 1
            /\ fails[k] \cap Target(k) = {}
            /\ \A t \in snap[k] \ fails[k] :
                 /\ Copies(t, cur[k]) = 1
                 /\ alive[t] => t \in Target(k)]_vars

\* C7: a connection whose handler has terminated, for whatever reason, is
\* in neither registry set.
C7_DoneNotRegistered ==
    \A c \in Conn :
      pc[c] = "done" => c \notin connected_clients \cup connected_agents

\* C8: when the only connected agent disconnects, every client in the
\* client set at that moment gets exactly one agent_status connected=false,
\* and once the disconnect is complete nobody gets that broadcast any more.
C8_SoleAgentDisconnect ==
    [][/\ \A a \in Conn :
            (pc'[a] = "done" /\ removal'[a].by = "disconnect"
                             /\ removal'[a].sole)
            => \A cl \in removal'[a].clients :
                 alive'[cl] => Copies(cl, AgentStatus(FALSE, a))' = 1
       /\ \A a, cl \in Conn :
            pc[a] = "done"
            => Copies(cl, AgentStatus(FALSE, a))'
                 = Copies(cl, AgentStatus(FALSE, a))]_vars

\* C9: every removal of a connection from the agent set, whatever its
\* cause, is followed by an agent_status connected=false broadcast to the
\* clients then in the client set.
C9_RemovalBroadcast ==
    Quiet =>
      \A a \in Conn :
        removal[a].by # "none"
        => \A cl \in removal[a].clients :
             alive[cl] => Copies(cl, AgentStatus(FALSE, a)) >= 1

\* C10: a frame that is not JSON is answered with an error envelope to its
\* sender only, is forwarded to nobody, and leaves the sender in its
\* registry set, waiting for its next frame.
C10_BadFrameIsolated ==
    [][\A c \in Conn :
         (frames' = frames + 1 /\ lastIn'.src = c /\ lastIn'.type = NonJson)
         => /\ pc'[c] = "recv"
            /\ InOwnSet(c)'
            /\ Len(inbox'[c]) = Len(inbox[c]) + 1
            /\ SubSeq(inbox'[c], 1, Len(inbox[c])) = inbox[c]
            /\ inbox'[c][Len(inbox'[c])].type = "error"
            /\ \A d \in Conn \ {c} : inbox'[d] = inbox[d]]_vars

\* The step answers c, and nobody else, with one error envelope of that text.
AnsweredError(c, text) ==
    /\ Len(inbox'[c]) = Len(inbox[c]) + 1
    /\ SubSeq(inbox'[c], 1, Len(inbox[c])) = inbox[c]
    /\ LET e == inbox'[c][Len(inbox'[c])]
       IN /\ e.type = "error"
          /\ e.message = text
          /\ e.command = "none" /\ e.status = "none"
          /\ e.connected = "none" /\ e.file = "none"
    /\ \A d \in Conn \ {c} : inbox'[d] = inbox[d]

\* The step reads a ping of client c while the agent set is empty.
PingNoAgent(c) ==
    /\ frames' = frames + 1
    /\ role[c] = "client"
    /\ lastIn'.src = c
    /\ lastIn'.type = "command"
    /\ lastIn'.command = "ping"
    /\ connected_agents = {}

Relayed(t, n) ==
    Cardinality({i \in 1..Len(inbox[t]) : inbox[t][i].id = n})

\* C12: a command received from a client while the agent set is empty is
\* never delivered to any agent, also not to one that connects later, and
\* no agent gets the same client command more than once.
C12_AtMostOnce ==
    \A t \in Conn :
      role[t] = "agent"
      => /\ \A n \in unserved : Relayed(t, n) = 0
         /\ \A n \in 1..frames : Relayed(t, n) <= 1

\* An agent that connected after an unserved command has been sent a later
\* command.
C12_Witness ==
    \E t \in Conn :
      /\ role[t] = "agent"
      /\ unserved = {1}
      /\ Relayed(t, 2) = 1

\* The step ends the handling of an inbound frame by connection c: the
\* frame, and the target set as it was when the frame was read.
Finishing(c) ==
    /\ pc'[c] \notin Loops
    /\ \/ pc[c] = "fan"
       \/ pc[c] = "recv" /\ frames' = frames + 1 /\ lastIn'.src = c
Handled(c) == IF pc[c] = "fan" THEN cur[c] ELSE lastIn'
TargetsThen(c) == IF pc[c] = "fan" THEN snap[c] ELSE Target(c)

\* After the step, t has been sent envelope m as it is.
GotUnchanged(t, m) == \E i \in 1..Len(inbox'[t]) : inbox'[t][i] = m

\* C13: every envelope received from a client, whatever its type, is
\* delivered unchanged to every member of the agent set when that set is
\* not empty (a member whose transport is closed cannot be delivered to,
\* an oversized envelope falls under the size policy, and a command
\* envelope without its command field is malformed).
C13_ClientRelayVerbatim ==
    [][\A c \in Conn :
         (/\ role[c] = "client"
          /\ Finishing(c)
          /\ Handled(c).type # NonJson
          /\ ~Handled(c).big
          /\ Handled(c).type = "command" => Handled(c).command # "none"
          /\ TargetsThen(c) # {})
         => \A t \in TargetsThen(c) :
              alive'[t] => GotUnchanged(t, Handled(c))]_vars

\* After the step, the number of frames sent to t that are envelope m as
\* it is.
Unchanged(t, m) ==
    Cardinality({i \in 1..Len(inbox'[t]) : inbox'[t][i] = m})

\* C14: every envelope received from an agent is delivered unchanged,
\* exactly once, to every connection that was in the client set when the
\* envelope was received and can be sent to (an oversized envelope falls
\* under the size policy).
C14_AgentRelayVerbatim ==
    [][\A c \in Conn :
         (/\ role[c] = "agent"
          /\ Finishing(c)
          /\ Handled(c).type # NonJson
          /\ ~Handled(c).big)
         => \A t \in TargetsThen(c) :
              alive'[t] => Unchanged(t, Handled(c)) = 1]_vars

\* An acknowledgement: a status of ok and no type.
IsAck(e) == e.type = "none" /\ e.status = "ok"
Acks(t) == Cardinality({i \in 1..Len(inbox[t]) : IsAck(inbox[t][i])})

\* C15: for every message received from an agent the server sends exactly
\* one acknowledgement {"status": "ok"} to that agent, and none to any other
\* connection.
C15_OneAck ==
    [][/\ \A c \in Conn :
            (/\ role[c] = "agent"
             /\ Finishing(c)
             /\ Handled(c).type # NonJson
             /\ alive'[c])
            => Acks(c)' = Acks(c) + 1
       /\ \A d \in Conn :
            Acks(d)' # Acks(d) => role[d] = "agent" /\ Finishing(d)]_vars

\* Frames i and j sent to t relay two inbound frames of the same origin.
SameOrigin(t, i, j) ==
    /\ inbox[t][i].id > 0
    /\ inbox[t][j].id > 0
    /\ inbox[t][i].src = inbox[t][j].src

\* C16: the messages of one origin connection that reach one target
\* connection arrive in the order the server received them from the origin.
C16_PerOriginOrder ==
    \A t \in Conn :
      \A i, j \in 1..Len(inbox[t]) :
        (i < j /\ SameOrigin(t, i, j)) => inbox[t][i].id < inbox[t][j].id

\* A target has been sent two messages of the same origin.
C16_Witness ==
    \E t \in Conn :
      \E i, j \in 1..Len(inbox[t]) :
        i < j /\ SameOrigin(t, i, j)

\* C17: no frame larger than the 1 MiB ceiling is ever sent to a peer: an
\* oversized envelope is replaced by its reduced envelope.
C17_SizeCeiling ==
    \A t \in Conn :
      \A i \in 1..Len(inbox[t]) : ~inbox[t][i].big

\* C20: the agent set and the client set are disjoint, and a connection
\* is in its set at most once.
C20_DisjointSets ==
    /\ connected_clients \cap connected_agents = {}
    /\ \A c \in connected_clients : role[c] = "client"
    /\ \A c \in connected_agents : role[c] = "agent"
    /\ \A c \in Conn : admits[c] <= 1

\* Both sets have members.
C20_Witness ==
    /\ connected_clients # {}
    /\ connected_agents # {}
    /\ Cardinality(connected_clients \cup connected_agents) = NConn

\* C18: a peer whose send never completes neither keeps the envelope from
\* the other members of the target set nor stalls the relaying of later
\* messages to them: no fan-out waits for good on one peer while its
\* target set has a member that reads.
C18_SlowPeerIsolated ==
    \A k \in Task :
      pc[k] = "hung" => \A t \in snap[k] : t \in stalled \/ ~alive[t]

\* C19: after every end of a connection attempt, however it ended, the
\* agent sleeps one backoff interval of reconnect_delay seconds and then
\* starts a new attempt; it never stops retrying, however many attempts in
\* a row have failed.
C19_ReconnectLoop ==
    /\ [](apc = "sleeping" /\ attempts < MaxAttempts => ENABLED connect_retry)
    /\ [](sleeps = IF apc = "sleeping" THEN attempts ELSE attempts - 1)
    /\ [][/\ (apc # "sleeping" /\ apc' \notin {apc, "open"})
             => /\ apc' = "sleeping"
                /\ sleeps' = sleeps + 1
                /\ delay' = reconnect_delay
          /\ (apc = "sleeping" /\ apc' # apc)
             => apc' = "connecting" /\ attempts' = attempts + 1]_vars

\* The agent is trying again after more failed attempts in a row than
\* max_retries.
C19_Witness ==
    /\ apc = "connecting"
    /\ attempts > max_retries + 1
    /\ sleeps = attempts - 1
    /\ lastEnd = "rejected"

\* C21: a connection that was removed from a registry set is never added to
\* any set again: once a connection has been admitted and is in neither set,
\* no step puts it into a set, and no connection is admitted twice; a peer
\* that comes back is admitted as another connection.
C21_NeverReadmitted ==
    [][\A c \in Conn :
         /\ admits'[c] <= 1
         /\ (admits[c] >= 1 /\ c \notin connected_clients \cup connected_agents)
            => c \notin connected_clients' \cup connected_agents']_vars

\* A connection was removed from its set and a later connection of the same
\* role is a member.
C21_Witness ==
    \E c, d \in Conn :
      /\ c < d
      /\ role[c] = role[d]
      /\ admits[c] = 1
      /\ pc[c] = "done"
      /\ c \notin connected_clients \cup connected_agents
      /\ d \in connected_clients \cup connected_agents

\* t has got the agent_status envelope that tells of agent a's connection.
ToldConnected(t, a) ==
    \E i \in 1..Len(inbox[t]) :
      /\ inbox[t][i].type = "agent_status"
      /\ inbox[t][i].connected = "true"
      /\ inbox[t][i].src = a

\* C23: when an agent is admitted, every client that is in the client set
\* at that moment receives an agent_status envelope with connected = true:
\* when the admission of the agent is over, every such client that still
\* reads has got the envelope.
C23_AdmissionBroadcast ==
    [][\A a \in Conn :
         /\ (role[a] = "none" /\ role'[a] = "agent" /\ pc'[a] # "bcast_on")
            => \A t \in connected_clients :
                 alive'[t] => ToldConnected(t, a)'
         /\ (pc[a] = "bcast_on" /\ pc'[a] # "bcast_on")
            => \A t \in snap[a] :
                 alive'[t] /\ t \in connected_clients' => ToldConnected(t, a)']_vars

\* C28: a command envelope of a client that lacks its command field is
\* answered with an error envelope sent to that client only and is forwarded
\* to no agent; the client stays connected and both sets stay as they were.
C28_NoCommandField ==
    [][\A c \in Conn :
         (/\ frames' = frames + 1
          /\ lastIn'.src = c
          /\ role[c] = "client"
          /\ lastIn'.type = "command"
          /\ lastIn'.command = "none")
         => /\ Len(inbox'[c]) = Len(inbox[c]) + 1
            /\ inbox'[c][Len(inbox'[c])].type = "error"
            /\ \A t \in Conn \ {c} : inbox'[t] = inbox[t]
            /\ pc'[c] = "recv"
            /\ connected_clients' = connected_clients
            /\ connected_agents' = connected_agents]_vars

\* C30: the first frame a client receives after its admission is the
\* agent_status envelope of its own handler, and its connected field says
\* whether the agent set was non-empty when the frame was sent, whatever
\* broadcasts of agents go on at the same time.
C30_FirstFrameStatus ==
    [][\A c \in Conn :
         (role'[c] = "client" /\ inbox'[c] # <<>>)
         => /\ inbox'[c][1].type = "agent_status"
            /\ inbox'[c][1].src = 0
            /\ inbox[c] = <<>>
               => inbox'[c][1].connected =
                    IF connected_agents # {} THEN "true" ELSE "false"]_vars

\* A client was admitted while the broadcast of an agent's message was
\* under way, and got its status first and a relayed message after it.
C30_Witness ==
    \E c, a \in Conn :
      /\ role[c] = "client"
      /\ role[a] = "agent"
      /\ pc[a] = "fan"
      /\ c \notin snap[a]
      /\ Len(inbox[c]) >= 1
      /\ inbox[c][1].connected = "true"

\* The cookie is the literal two-token form "Bearer <token>".
Literal(ck) ==
    /\ ck.present
    /\ Len(ck.value) >= 3
    /\ ck.value[1] = "Bearer"
    /\ ck.value[2] = SP
    /\ \A i \in 3..Len(ck.value) : ck.value[i] # SP

\* C22: token extraction returns the token exactly when the access_token
\* cookie is the literal two-token form "Bearer <token>", and returns the
\* rejection value for every other value: a missing cookie, a value without
\* scheme word, a scheme other than Bearer, a value of more than two parts.
C22_LiteralBearer ==
    extracted.called =>
      IF Literal(cookie)
      THEN /\ extracted.ok
           /\ extracted.token = SubSeq(cookie.value, 3, Len(cookie.value))
      ELSE extracted = None

\* The value is blanks, a scheme word, blanks, a token, blanks: the token is
\* the pieces j..k.
TwoParts(v, i, j, k) ==
    /\ i < j - 1
    /\ j <= k
    /\ \A n \in 1..Len(v) : (v[n] = SP) <=> (n < i \/ (i < n /\ n < j) \/ k < n)

\* C22 (amended): token extraction returns the token exactly when the value
\* of the access_token cookie, split at its blanks, has two parts of which
\* the first is the word Bearer in any letter case, and returns the
\* rejection value for every other value: a missing cookie, a value without
\* scheme word, a scheme other than Bearer, a value of more than two parts.
C22_BearerAnyCase ==
    extracted.called =>
      LET v == cookie.value
          I == 1..Len(v)
      IN IF cookie.present
            /\ \E i, j, k \in I :
                 TwoParts(v, i, j, k) /\ v[i] \in {"Bearer", "bearer"}
         THEN /\ extracted.ok
              /\ \E i, j, k \in I :
                   TwoParts(v, i, j, k) /\ extracted.token = SubSeq(v, j, k)
         ELSE extracted = None

\* The token was taken from a cookie whose scheme is written in small
\* letters.
C22_Witness ==
    /\ extracted.called
    /\ extracted.ok
    /\ cookie.value = <<"bearer", SP, "tok">>

\* handle_messages_command runs for the frame in data.
Answers == Pending /\ response' # response

\* The step leaves the agent's loop running and the response sent.
Replied(r) ==
    /\ response' = r
    /\ apc' = "open" => outbox' = Append(outbox, [r EXCEPT !.re = data.id])
    /\ apc' # "open" => lastEnd' = "closed" /\ outbox' = outbox

\* C24: a command whose command value is not in the vocabulary is answered
\* by the agent with {"type": "response", "status": "error", "message":
\* "Unknown command"}; it never ends the agent's loop, which goes on unless
\* the connection was closed under the send, and is never left without
\* reply.
C24_UnknownCommand ==
    [][Answers /\ data.command \notin Vocabulary
         => Replied(Response("error", "Unknown command"))]_vars

\* C24 (amended): a command whose command value is not in the vocabulary is
\* answered by the agent with {"type": "response", "status": "error",
\* "message": "Comando desconocido"}; it never ends the agent's loop, which
\* goes on unless the connection was closed under the send, and is never
\* left without reply.
C24_ComandoDesconocido ==
    [][Answers /\ data.command \notin Vocabulary
         => Replied(Response("error", "Comando desconocido"))]_vars

\* The agent has answered a command it does not know and reads on.
C24_Witness ==
    /\ apc = "open"
    /\ Len(got) = 1
    /\ got[1].command = "status"
    /\ Len(outbox) = 1
    /\ outbox[1].message = "Comando desconocido"

\* A file name that names an entry of a directory: no separator in it, and
\* not the name of the parent directory.
PlainName(name) ==
    /\ name # <<>>
    /\ name # <<UP>>
    /\ \A i \in 1..Len(name) : name[i] # SEP

\* C25: for every byte string b and every filename f that names a file of
\* the directory, a download command that carries the base64 encoding of b
\* and that the agent has processed has stored under f exactly b.
C25_RoundTrip ==
    (/\ response # NoReply
     /\ data.command = "download"
     /\ data.content = b64encode(file_content)
     /\ PlainName(data.filename))
    => \E e \in files :
         /\ e.path = Append(FILES_DIR, data.filename)
         /\ e.content = file_content

\* C26: every filename taken from a command resolves to a file directly
\* inside the files directory: every file the agent has on disk is an
\* entry of FILES_DIR, none is outside it.
C26_InsideFilesDir ==
    \A e \in files :
      /\ Len(e.path) = Len(FILES_DIR) + 1
      /\ SubSeq(e.path, 1, Len(FILES_DIR)) = FILES_DIR

\* The reports about the download event frame m that the agent has sent.
Reports(m) ==
    {j \in 1..Len(outbox) :
       /\ outbox[j].type \in {"download_complete", "download_failed"}
       /\ outbox[j].re = m.id}

\* C27: for every envelope of type download with a file field that the
\* agent has read from the server, the agent fetches the file and reports
\* exactly one of download_complete and download_failed: once the agent is
\* back at reading the next frame, one report has been sent.
C27_DownloadReported ==
    (apc = "open" /\ ~Pending)
    => \A i \in 1..Len(got) :
         (got[i].type = "download" /\ got[i].file # <<>>)
         => Cardinality(Reports(got[i])) = 1

\* The command envelopes the agent has read on this connection.
Commands == SelectSeq(got, LAMBDA m : m.type = "command")

\* C29: for every command envelope the agent receives it sends exactly one
\* reply on the same connection, the replies are sent in the order the
\* commands arrived, and ping is answered with the pong envelope: while the
\* connection is open, the replies sent are one for each command read, in
\* their order, but for the command being handled.
C29_OneReplyInOrder ==
    apc = "open"
    => /\ Len(outbox) = Len(Commands) - (IF Pending THEN 1 ELSE 0)
       /\ \A i \in 1..Len(outbox) :
            /\ outbox[i].re = Commands[i].id
            /\ outbox[i].type \in {"response", "agent_files"}
            /\ Commands[i].command = "ping"
               => /\ outbox[i].type = "response"
                  /\ outbox[i].status = "ok"
                  /\ outbox[i].message = "pong"

\* The agent has answered two commands on one connection, the second of
\* them a ping.
C29_Witness ==
    /\ apc = "open"
    /\ ~Pending
    /\ Len(Commands) = 2
    /\ Len(outbox) = 2
    /\ outbox[2].message = "pong"
    /\ outbox[1].message # "pong"

\* The places of the agent_status envelopes among the frames t was sent.
StatusAt(t) ==
    {i \in 1..Len(inbox[t]) : inbox[t][i].type = "agent_status"}

\* C31: whenever no handler is in the middle of a broadcast and every
\* closed agent connection has been taken out of the agent set, the
\* connected value of the last agent_status envelope delivered to each
\* client equals whether the agent set is non-empty, also when one of
\* several agents disconnects.
C31_StatusTracksAgents ==
    (Quiet /\ \A a \in connected_agents : alive[a])
    => \A t \in connected_clients :
         (alive[t] /\ StatusAt(t) # {})
         => LET last == CHOOSE i \in StatusAt(t) :
                          \A j \in StatusAt(t) : j <= i
            IN inbox[t][last].connected =
                 IF connected_agents # {} THEN "true" ELSE "false"

\* The agents that have been sent frame m of client c, after the step.
SentTo(c, m) ==
    {t \in Conn :
       /\ role[t] = "agent"
       /\ \E i \in 1..Len(inbox'[t]) :
            inbox'[t][i].id = m.id /\ inbox'[t][i].src = c}

\* The step sends n envelopes to c, all of them error envelopes.
ErrorsBack(c, n) ==
    /\ Len(inbox'[c]) = Len(inbox[c]) + n
    /\ \A i \in (Len(inbox[c]) + 1)..Len(inbox'[c]) :
         inbox'[c][i].type = "error"

\* C32: for every message a client sends on /ws, either at least one agent
\* was successfully sent that message or the server sent exactly one error
\* envelope back to that client, never both and never neither: when the
\* handling of a frame of a client that still reads is over, one of the two
\* has happened.
C32_RelayedOrError ==
    [][\A c \in Conn :
         (Finishing(c) /\ role[c] = "client" /\ alive[c])
         => \/ SentTo(c, Handled(c)) # {} /\ ErrorsBack(c, 0)
            \/ SentTo(c, Handled(c)) = {} /\ ErrorsBack(c, 1)]_vars

\* The step is one of connection k, in or into a fan-out.
FanStep(k) ==
    /\ pc[k] \in Loops \/ pc'[k] \in Loops
    /\ pc'[k] # pc[k] \/ seen'[k] # seen[k]

\* C33: a delivery failure to a target peer never removes the originating
\* connection from its registry set: a step of the fan-out of an open
\* connection leaves the connection in its set and changes only the target
\* set, and that only by removing members whose send failed.
C33_OriginKept ==
    [][\A k \in Conn :
         (FanStep(k) /\ alive[k] /\ InOwnSet(k))
         => /\ InOwnSet(k)'
            /\ Target(k)' \subseteq Target(k)
            /\ \A t \in Target(k) \ Target(k)' : ~alive[t]]_vars

\* C38: the agent's is_connected flag is true only while a connection to
\* the server is established and its message loop is running; after any end
\* of a connection (close, receive error, malformed frame, handshake
\* failure) the flag is false before the backoff wait begins.
C38_FlagFollowsConnection ==
    /\ [](is_connected => apc = "open")
    /\ [][apc' = "sleeping" => ~is_connected']_vars

\* The agent waits after a frame that was not JSON ended an open connection
\* on which it had answered a command.
C38_Witness ==
    /\ apc = "sleeping"
    /\ lastEnd = "error"
    /\ Len(got) = 2
    /\ Len(outbox) = 1
    /\ ~is_connected

\* On this connection the agent has answered command c for the file name
\* with success, at the frame i.
Succeeded(c, name, i) ==
    /\ i \in 1..Len(got)
    /\ got[i].type = "command"
    /\ got[i].command = c
    /\ got[i].filename = name
    /\ \E j \in 1..Len(outbox) :
         outbox[j].re = i /\ outbox[j].status = "success"

\* The last success for the name was a download, or a delete_file.
LastWas(c, name) ==
    \E i \in 1..Len(got) :
       /\ Succeeded(c, name, i)
       /\ \A k \in (i + 1)..Len(got) :
            /\ ~Succeeded("download", name, k)
            /\ ~Succeeded("delete_file", name, k)

\* C39: on the agent, after a download command for filename f succeeds
\* every list_files reply includes f until a delete_file for f succeeds,
\* after which list_files replies exclude f until the next successful
\* download of f; a delete_file for a filename that is absent replies with an
\* error and leaves the agent's file set unchanged.
C39_FileSetFollowsCommands ==
    [][Answers
         => /\ data.command = "list_files"
                => \A name \in Filenames :
                     /\ LastWas("download", name) => name \in response'.files
                     /\ LastWas("delete_file", name)
                          => name \notin response'.files
            /\ (/\ data.command = "delete_file"
                /\ data.filename \notin listdir(files, FILES_DIR))
                => response'.status = "error" /\ files' = files]_vars

\* The request carries no valid access token.
NoValidToken(r) == get_current_user_of(asked[r].cookie) \notin Users

\* C34: a request to a server file endpoint (list-files, start-download,
\* secure-file, download, upload_files, delete_files) that carries no valid
\* access token changes nothing in the file store, sends nothing to any
\* agent and leaves the agent set unchanged.
C34_NoTokenNoEffect ==
    [][\A r \in Req :
         (pc[r] = "new" /\ pc'[r] # "new" /\ NoValidToken(r)')
         => /\ pc'[r] = "done"
            /\ store' = store
            /\ inbox' = inbox
            /\ connected_agents' = connected_agents]_vars

\* delete_files has refused a request without valid token for a file that
\* is in the store, while an agent is connected.
C34_Witness ==
    \E r \in Req :
       /\ kind[r] = "delete_files"
       /\ pc[r] = "done"
       /\ NoValidToken(r)
       /\ asked[r].cookie.present
       /\ asked[r].name \in store
       /\ \E a \in connected_agents : alive[a] /\ inbox[a] = <<>>

\* The answer to request r is given in this step.
Answered(r) == httpStatus'[r] # 0 /\ pc[r] # "done" /\ pc'[r] = "done"

\* C35: POST /download/{filename} answers 401 when unauthenticated, 404 when
\* the file does not exist, 503 when no agent is connected or no agent could
\* be sent the command, and success only when at least one agent was sent
\* it.
C35_DownloadAnswers ==
    [][\A r \in Req :
         (Answered(r) /\ kind'[r] = "download_file")
         => LET sent == \E a \in Conn : \E i \in 1..Len(inbox'[a]) :
                          inbox'[a][i].src = r
            IN CASE NoValidToken(r)' -> httpStatus'[r] = 401
                 [] ~NoValidToken(r)' /\ asked'[r].name \notin store ->
                      httpStatus'[r] = 404
                 [] OTHER -> httpStatus'[r] = IF sent THEN 200 ELSE 503]_vars

\* C36: after a successful login, a request carrying the cookie that login
\* set is authenticated as that user; after a logout, a request carrying
\* the cookies left by logout is unauthenticated.
C36_LoginLogout ==
    [][hits' = hits + 1
         => /\ logged.user \in Users => current_user' = logged.user
            /\ logged.user = "out" => current_user' \notin Users]_vars

\* A page was asked for after a logout and then again after bob's login.
C36_Witness ==
    /\ hits = 2
    /\ logged = [user |-> "bob", status |-> 302]
    /\ current_user = "bob"
    /\ cookie = BearerCookie("jwt.bob")
    /\ jar.access_token.value = <<DQ, "Bearer", SP, "jwt.bob", DQ>>

\* The frames the agent process was sent that came from a client.
FromClients ==
    {i \in 1..Len(inbox[AgentEnd]) :
       inbox[AgentEnd][i].src \in Conn /\ role[inbox[AgentEnd][i].src] = "client"}

\* The acknowledgements the agent process was sent.
AcksSent ==
    {i \in 1..Len(inbox[AgentEnd]) : inbox[AgentEnd][i] = Ack}

\* C37: relaying always quiesces: one client command causes at most one
\* reply from each agent, one relay of each reply to the clients and one
\* acknowledgement to each replying agent, and the server's acknowledgement
\* never makes an agent send a further message.
C37_RelayQuiesces ==
    /\ \A j \in 1..Len(outbox) :
         /\ outbox[j].re \in FromClients
         /\ \A k \in 1..Len(outbox) : outbox[k].re = outbox[j].re => k = j
    /\ \A t \in Conn : \A n \in 1..frames :
         Cardinality({i \in 1..Len(inbox[t]) :
                        inbox[t][i].src = AgentEnd /\ inbox[t][i].id = n}) <= 1
    /\ Cardinality(AcksSent) <= taken
    /\ taken <= Len(outbox)

\* The agent process has answered the ping of a client, the server has
\* relayed the pong and acknowledged it, and the agent process has read
\* the acknowledgement and waits for the next frame.
C37_Witness ==
    /\ Len(outbox) = 1
    /\ outbox[1].message = "pong"
    /\ taken = 1
    /\ \E t \in connected_clients : \E i \in 1..Len(inbox[t]) :
         inbox[t][i].src = AgentEnd /\ inbox[t][i].message = "pong"
    /\ Len(inbox[AgentEnd]) = 2
    /\ inbox[AgentEnd][2] = Ack
    /\ handled = 2
    /\ data = FromServer(Ack, 2)
    /\ ~Pending

\* Connections come.
Accepts ==
    \/ \E c \in Conn : main_websocket_endpoint_accept(c)
    \/ \E c \in Conn : main_agent_websocket_accept(c)
    \/ \E c \in Conn : routes_websocket_endpoint_accept(c)
    \/ \E c \in Conn : routes_agent_websocket_accept(c)
    \/ \E c \in Conn : routes_agent_websocket_resume(c)

\* Connections go.
Closes ==
    \/ \E c \in Conn : PeerCloses(c)
    \/ \E c \in Conn : main_websocket_endpoint_disconnect(c)
    \/ \E c \in Conn : main_agent_websocket_disconnect(c)
    \/ \E c \in Conn : routes_websocket_endpoint_disconnect(c)
    \/ \E c \in Conn : routes_agent_websocket_disconnect(c)

Sockets == Accepts \/ Closes

\* Peers stop reading.
Stalls == \E c \in Conn : PeerStalls(c)

\* The peers send frames and the handlers relay them.
Frames ==
    \/ \E c \in Conn : main_websocket_endpoint_receive(c)
    \/ \E c \in Conn : main_websocket_endpoint_resume(c)
    \/ \E c \in Conn : main_agent_websocket_receive(c)
    \/ \E c \in Conn : main_agent_websocket_resume(c)
    \/ \E c \in Conn : routes_websocket_endpoint_receive(c)
    \/ \E c \in Conn : routes_websocket_endpoint_resume(c)
    \/ \E c \in Conn : routes_agent_websocket_receive(c)

\* HTTP requests ask the server to send to the agents.
Requests ==
    \/ \E r \in Req : start_download(r)
    \/ \E r \in Req : start_download_resume(r)
    \/ \E r \in Req : download_file(r)
    \/ \E r \in Req : download_file_resume(r)

\* HTTP requests read and change the files of the server.
Files ==
    \/ \E r \in Req : list_files(r)
    \/ \E r \in Req : get_secure_file(r)
    \/ \E r \in Req : upload_files(r)
    \/ \E r \in Req : delete_files(r)

\* The browser logs in and out and asks for pages.
Sessions ==
    \/ main_login
    \/ main_logout
    \/ routes_login
    \/ routes_logout
    \/ dashboard

\* One agent process, the server and the browser clients.
Loop ==
    \/ agent_connects
    \/ \E c \in Conn : main_websocket_endpoint_accept(c)
    \/ \E c \in Conn : main_websocket_endpoint_receive(c)
    \/ \E c \in Conn : main_websocket_endpoint_resume(c)
    \/ handle_messages_recv
    \/ handle_messages_command
    \/ main_agent_websocket_reply
    \/ \E c \in Conn : main_agent_websocket_resume(c)

\* The agent process.
AgentProcess ==
    \/ connect_established
    \/ connect_failed
    \/ handle_messages_frame
    \/ handle_messages_command
    \/ handle_messages_ends
    \/ connect_retry

Next ==
    \/ Sockets
    \/ Frames
    \/ Requests
    \/ Files
    \/ Sessions
    \/ Loop
    \/ Stalls
    \/ AgentProcess
    \/ get_current_user

Spec == Init /\ [][Next]_vars

\* The relay while no HTTP request arrives.
SpecRelay == Init /\ [][Sockets \/ Frames]_vars

\* The HTTP endpoints while the peers send no frame.
SpecHttp == Init /\ [][Sockets \/ Requests]_vars

\* The file endpoints while the peers send no frame.
SpecFiles == Init /\ [][Sockets \/ Requests \/ Files]_vars

\* The logins, logouts and page requests of a browser alone.
SpecSession == Init /\ [][Sessions]_vars

\* The relay of main.py with the agent process at its other end.
SpecLoop == InitLoop /\ [][Loop]_vars

\* The agent process alone.
SpecAgent == Init /\ [][AgentProcess]_vars

\* handle_command alone, over every command.
SpecCommand == InitCommand /\ [][handle_messages_command]_vars

\* The token extraction alone, over every cookie.
SpecToken == InitToken /\ [][get_current_user]_vars

\* The relay while peers stop reading and no connection is closed.
SpecSlow == Init /\ [][Accepts \/ Frames \/ Stalls]_vars
====
